---- MODULE Spec2Model ----
(***************************************************************************)
(* Model of lib/components/Notifier.jsx (the Notifier React component) and *)
(* of the task series of gulpfile.js.                                      *)
(*                                                                         *)
(* JavaScript values are written as the text of their literal:             *)
(*   "undefined", "null", "true", "false", "2", "'br'" (a string).         *)
(* A JavaScript object is a function from its own keys to such values.     *)
(***************************************************************************)
EXTENDS FiniteSets, Integers, Sequences, TLC

VARIABLES
    heap,       \* the caller's objects: object id -> record (own keys -> values)
    ns,         \* this.refs.NotificationSystem: the wrapped display surface
    state,      \* this.state of the Notifier component
    last,       \* the last operation: its name, argument, outcome, surface calls
    autoFired,  \* history: uids whose auto-dismiss timer has fired
    hidden,     \* history: uids a hideNotification call has removed
    hideCalled, \* history: uids hidden while visible with a pending timer
    NODE_ENV,   \* process.env.NODE_ENV
    series,     \* the gulp series started from the command line
    pc,         \* index of the current task of that series
    running,    \* tasks that have started and not completed
    watchers,   \* gulp.watch watchers: index of the running task, 0 when idle
    out,        \* artifacts present in OUTPUT_DIR
    envSeen,    \* NODE_ENV as read by the last run of bundle and css
    cleaned     \* clean has completed in this run

notifierVars == <<heap, ns, state, last, autoFired, hidden, hideCalled>>
gulpVars == <<NODE_ENV, series, pc, running, watchers, out, envSeen, cleaned>>
vars == <<heap, ns, state, last, autoFired, hidden, hideCalled,
          NODE_ENV, series, pc, running, watchers, out, envSeen, cleaned>>

(***************************************************************************)
(* Bounds                                                                  *)
(***************************************************************************)
MaxUid == 2         \* notifications the surface issues in one run

(***************************************************************************)
(* JavaScript values and objects                                           *)
(***************************************************************************)
Undefined == "undefined"
Absent == "<absent>"     \* not a value: marks a key the object does not have

Keys == {"level", "message", "position", "dismissible", "autoDismiss"}
EmptyObject == [k \in {} |-> Undefined]

\* obj.key: the value of an own key, undefined when the object lacks it
Get(obj, k) == IF k \in DOMAIN obj THEN obj[k] ELSE Undefined

IsString(v) == Len(v) >= 2 /\ SubSeq(v, 1, 1) = "'"

\* `${v}`: the string conversion of a template literal, without the quotes
TemplateString(v) == IF IsString(v) THEN SubSeq(v, 2, Len(v) - 1) ELSE v

\* Object.assign(target, source) on records: every own key of source is
\* written over target, whatever its value (undefined included)
Assign(target, source) ==
    [k \in DOMAIN target \cup DOMAIN source |->
        IF k \in DOMAIN source THEN source[k] ELSE target[k]]

\* Object.assign(t, s) on the heap: mutates object t, returns t
ObjectAssign(h, t, s) == [h EXCEPT ![t] = Assign(h[t], h[s])]

\* the object built from one choice (a value or Absent) per key
MkObject(l, m, p, d, a) ==
    LET c == [level |-> l, message |-> m, position |-> p,
              dismissible |-> d, autoDismiss |-> a]
    IN  [k \in {x \in Keys : c[x] /= Absent} |-> c[k]]

LevelInputs == {Absent, Undefined, "null", "'info'", "'success'", "'error'", "'warning'", "'INFO'"}
MessageInputs == {Absent, "'disconnected'"}
PositionInputs == {Absent, Undefined, "'tl'"}
DismissibleInputs == {Absent, Undefined, "false"}
AutoDismissInputs == {Absent, Undefined, "false", "0", "1"}

\* the records a caller may pass to notify
Inputs ==
    { MkObject(l, m, p, d, a) :
        l \in LevelInputs, m \in MessageInputs, p \in PositionInputs,
        d \in DismissibleInputs, a \in AutoDismissInputs }

(***************************************************************************)
(* The display surface (react-notification-system), as the specification   *)
(* describes it: it stores the records it is given under fresh uids, owns  *)
(* the auto-dismiss timers, and ignores the removal of an absent uid.      *)
(***************************************************************************)
PositiveNumbers == {"1", "2", "4"}

NoNotifications == [u \in {} |-> EmptyObject]

NewSurface == [notifications |-> NoNotifications, timers |-> {}, uid |-> 0]

addNotification(s, rec) ==
    [notifications |->
        [u \in DOMAIN s.notifications \cup {s.uid} |->
            IF u = s.uid THEN rec ELSE s.notifications[u]],
     timers |-> IF Get(rec, "autoDismiss") \in PositiveNumbers
                THEN s.timers \cup {s.uid} ELSE s.timers,
     uid |-> s.uid + 1]

removeNotification(s, uid) ==
    IF uid \in DOMAIN s.notifications
    THEN [notifications |-> [u \in DOMAIN s.notifications \ {uid} |-> s.notifications[u]],
          timers |-> s.timers \ {uid},
          uid |-> s.uid]
    ELSE s

\* a surface call made by the component
AddCall(rec) == [fn |-> "addNotification", rec |-> rec, uid |-> -1]
RemoveCall(uid) == [fn |-> "removeNotification", rec |-> EmptyObject, uid |-> uid]

ApplyCall(s, c) ==
    IF c.fn = "addNotification" THEN addNotification(s, c.rec)
    ELSE removeNotification(s, c.uid)

RECURSIVE ApplyCalls(_, _)
ApplyCalls(s, cs) ==
    IF cs = <<>> THEN s ELSE ApplyCalls(ApplyCall(s, Head(cs)), Tail(cs))

(***************************************************************************)
(* Notifier                                                                *)
(***************************************************************************)
NoError == "<none>"
Literal == "<literal>"   \* id of the object literal notify allocates

\* mutant: the error case copied from the cases above, autoDismiss left at 2
LevelDefaultsCopied(level) ==
    [position |-> "'br'", dismissible |-> "true", autoDismiss |-> "2"]

\* the object literal of each case of the switch
LevelDefaults(level) ==
    CASE level = "'info'" ->
            [position |-> "'br'", dismissible |-> "true", autoDismiss |-> "2"]
      [] level = "'success'" ->
            [position |-> "'br'", dismissible |-> "true", autoDismiss |-> "2"]
      [] level = "'error'" ->
            [position |-> "'br'", dismissible |-> "true", autoDismiss |-> "4"]

\* the cases of switch (data.level), compared with ===
KnownLevels == {"'info'", "'success'", "'error'"}

WithObject(h, id, obj) == [o \in DOMAIN h \cup {id} |-> IF o = id THEN obj ELSE h[o]]

\* mutant: the arguments of Object.assign swapped, data2 is the caller's object
NotifyMergeSwapped(h, d, level) ==
    [heap |-> ObjectAssign(WithObject(h, Literal, LevelDefaults(level)), d, Literal),
     data2 |-> d]

\* data2 = Object.assign({ ...defaults of the level }, data):
\* the heap after the call and the reference it returns
NotifyMerge(h, d, level) ==
    [heap |-> ObjectAssign(WithObject(h, Literal, LevelDefaults(level)), Literal, d),
     data2 |-> Literal]

\* new Error(`unknown level "${data.level}"`)
UnknownLevelError(level) == "unknown level \"" \o TemplateString(level) \o "\""

\* mutant: the merged record is forwarded twice
NotifyCallsTwice(rec) == <<AddCall(rec), AddCall(rec)>>

\* this.refs.NotificationSystem.addNotification(data2)
NotifyCalls(rec) == <<AddCall(rec)>>

\* mutant: the level is not checked, an unknown level is shown without defaults
NotifyBodyNoThrow(h, d) ==
    LET level == Get(h[d], "level") IN
    IF level \in KnownLevels
    THEN LET m == NotifyMerge(h, d, level)
         IN  [thrown |-> NoError, heap |-> m.heap, calls |-> NotifyCalls(m.heap[m.data2])]
    ELSE [thrown |-> NoError, heap |-> h, calls |-> NotifyCalls(h[d])]

\* the body of notify(data): the error thrown (if any), the heap and the
\* surface calls made
NotifyBody(h, d) ==
    LET level == Get(h[d], "level") IN
    IF level \in KnownLevels
    THEN LET m == NotifyMerge(h, d, level)
         IN  [thrown |-> NoError, heap |-> m.heap, calls |-> NotifyCalls(m.heap[m.data2])]
    ELSE [thrown |-> UnknownLevelError(level), heap |-> h, calls |-> <<>>]

\* mutant: the call to the surface is missing
HideCallsNone(uid) == <<>>

\* mutant: the uid is taken to count from one
HideCallsOffByOne(uid) == <<RemoveCall(uid - 1)>>

\* this.refs.NotificationSystem.removeNotification(uid)
HideCalls(uid) == <<RemoveCall(uid)>>

CallerObjects == DOMAIN heap

\* notify(data), data being the caller's object d.  The heap keeps the
\* caller's objects; the literal is reachable from the surface alone.
notify(d) ==
    /\ d \in CallerObjects
    /\ LET r == NotifyBody(heap, d) IN
        /\ ns.uid < MaxUid \/ r.calls = <<>>
        /\ heap' = [o \in CallerObjects |-> r.heap[o]]
        /\ ns' = ApplyCalls(ns, r.calls)
        /\ last' = [op |-> "notify", obj |-> d, data |-> heap[d], uid |-> -1,
                    thrown |-> r.thrown, calls |-> r.calls]
    /\ UNCHANGED <<state, autoFired, hidden, hideCalled>>
    /\ UNCHANGED gulpVars

\* hideNotification(uid)
hideNotification(uid) ==
    /\ LET cs == HideCalls(uid) IN
        /\ ns' = ApplyCalls(ns, cs)
        /\ last' = [op |-> "hideNotification", obj |-> "", data |-> EmptyObject,
                    uid |-> uid, thrown |-> NoError, calls |-> cs]
    /\ hidden' = hidden \cup (DOMAIN ns.notifications \ DOMAIN ns'.notifications)
    /\ hideCalled' = IF uid \in ns.timers THEN hideCalled \cup {uid} ELSE hideCalled
    /\ UNCHANGED <<heap, state, autoFired>>
    /\ UNCHANGED gulpVars

\* the surface's auto-dismiss timer of notification uid elapses
AutoDismiss(uid) ==
    /\ uid \in ns.timers
    /\ ns' = removeNotification(ns, uid)
    /\ last' = [op |-> "autoDismiss", obj |-> "", data |-> EmptyObject,
                uid |-> uid, thrown |-> NoError, calls |-> <<>>]
    /\ autoFired' = autoFired \cup {uid}
    /\ UNCHANGED <<heap, state, hidden, hideCalled>>
    /\ UNCHANGED gulpVars

\* the uids a caller may pass: issued ones, stale ones, never issued ones
UidInputs == 0 .. MaxUid

Idle == [pc |-> 0, run |-> FALSE]   \* a watcher that runs no task

(***************************************************************************)
(* Initial states                                                          *)
(***************************************************************************)
\* the records of the documented scenarios, held by one caller
ScenarioHeap ==
    [o \in {"e", "i", "s", "w"} |->
        CASE o = "e" -> MkObject("'error'", "'disconnected'", Absent, Absent, Absent)
          [] o = "i" -> MkObject("'info'", Absent, Absent, Absent, "false")
          [] o = "s" -> MkObject("'success'", Absent, "'tl'", Absent, Absent)
          [] o = "w" -> MkObject("'warning'", Absent, Absent, Absent, Absent)]

InitLast == [op |-> "constructor", obj |-> "", data |-> EmptyObject, uid |-> -1,
             thrown |-> NoError, calls |-> <<>>]

InitNotifier(h) ==
    /\ heap = h
    /\ ns = NewSurface
    /\ state = Undefined
    /\ last = InitLast
    /\ autoFired = {}
    /\ hidden = {}
    /\ hideCalled = {}

InitGulpIdle ==
    /\ NODE_ENV = "development"
    /\ series = "none"
    /\ pc = 0
    /\ running = {}
    /\ watchers = [w \in {} |-> Idle]
    /\ out = {}
    /\ envSeen = [t \in {} |-> ""]
    /\ cleaned = FALSE

Init ==
    /\ \E h \in {ScenarioHeap} \cup {[o \in {"data"} |-> r] : r \in Inputs} : InitNotifier(h)
    /\ InitGulpIdle

InitScenario ==
    /\ InitNotifier(ScenarioHeap)
    /\ InitGulpIdle

Next ==
    \/ \E d \in {"data", "e", "i", "s", "w"} : notify(d)
    \/ \E uid \in UidInputs : hideNotification(uid)
    \/ \E uid \in UidInputs : AutoDismiss(uid)

Spec == Init /\ [][Next]_vars

FairSpec == InitScenario /\ [][Next]_vars /\ \A uid \in UidInputs : WF_vars(AutoDismiss(uid))

(***************************************************************************)
(* gulpfile.js: the task series.  A task starts (its synchronous part      *)
(* runs), then completes (its stream, promise or callback ends);           *)
(* gulp.series starts a task when the one before it has completed.         *)
(***************************************************************************)
\* mutant: env:prod left out of the series
ProdSeriesNoEnv == <<"clean", "lint", "bundle", "html", "css", "resources">>

ProdSeries == <<"env:prod", "clean", "lint", "bundle", "html", "css", "resources">>

DevSeries == <<"env:dev", "clean", "lint", "bundle", "html", "css", "resources">>

LiveSeries ==
    <<"env:dev", "clean", "lint", "bundle:watch", "html", "css", "resources",
      "watch", "openbrowser">>

\* gulp.task('default', gulp.series('prod'))
DefaultSeries == ProdSeries

SeriesNames == {"prod", "dev", "live", "default"}

SeriesOf(name) ==
    CASE name = "prod" -> ProdSeries
      [] name = "dev" -> DevSeries
      [] name = "live" -> LiveSeries
      [] name = "default" -> DefaultSeries

\* the series each gulp.watch of the watch task runs on a change, and the
\* update handler watchify installs in bundle({ watch: true })
WatchNames == {"index.html", "stylus", "resources", "lib"}
Watchify == "watchify"

WatchSeries(w) ==
    CASE w = "index.html" -> <<"html">>
      [] w = "stylus" -> <<"css">>
      [] w = "resources" -> <<"resources", "css">>
      [] w = "lib" -> <<"lint">>
      [] w = Watchify -> <<"rebundle">>

\* tasks that call bundle(): they read process.env.NODE_ENV when they run
BundleTasks == {"bundle", "bundle:watch", "rebundle"}
EnvReaders == BundleTasks \cup {"css"}

\* tasks that write into OUTPUT_DIR
Writers == BundleTasks \cup {"html", "css", "resources"}

\* the file a writer leaves in OUTPUT_DIR
Artifact(t) == IF t \in BundleTasks THEN "js" ELSE t

\* the synchronous part of task t, run by owner o
StartEffects(o, t) ==
    /\ running' = running \cup {<<o, t>>}
    /\ NODE_ENV' = CASE t = "env:dev" -> "development"
                     [] t = "env:prod" -> "production"
                     [] OTHER -> NODE_ENV
    /\ envSeen' = IF t \in EnvReaders
                  THEN [x \in DOMAIN envSeen \cup {t} |-> IF x = t THEN NODE_ENV ELSE envSeen[x]]
                  ELSE envSeen
    \* mkdirp.sync(dst) of resources
    /\ out' = IF t = "resources" THEN out \cup {"resources"} ELSE out
    /\ UNCHANGED <<series, cleaned>>

\* the completion of task t, run by owner o
CompleteEffects(o, t) ==
    /\ running' = running \ {<<o, t>>}
    /\ out' = CASE t = "clean" -> {}
                [] t \in Writers -> out \cup {Artifact(t)}
                [] OTHER -> out
    /\ cleaned' = (cleaned \/ t = "clean")
    /\ UNCHANGED <<NODE_ENV, series, envSeen>>

\* `gulp <name>`: the gulpfile is loaded and the series started
Gulp(name) ==
    /\ series = "none"
    /\ series' = name
    /\ pc' = 1
    /\ NODE_ENV' = "development"
    /\ UNCHANGED <<running, watchers, out, envSeen, cleaned>>
    /\ UNCHANGED notifierVars

\* the series starts its next task
TaskStart ==
    /\ series \in SeriesNames
    /\ pc >= 1 /\ pc <= Len(SeriesOf(series))
    /\ LET t == SeriesOf(series)[pc] IN
        /\ <<"main", t>> \notin running
        /\ StartEffects("main", t)
        /\ watchers' =
            CASE t = "watch" ->
                    [w \in DOMAIN watchers \cup WatchNames |->
                        IF w \in DOMAIN watchers THEN watchers[w] ELSE Idle]
              [] t = "bundle:watch" ->
                    [w \in DOMAIN watchers \cup {Watchify} |->
                        IF w \in DOMAIN watchers THEN watchers[w] ELSE Idle]
              [] OTHER -> watchers
    /\ UNCHANGED pc
    /\ UNCHANGED notifierVars

\* the running task of the series completes
TaskComplete ==
    /\ series \in SeriesNames
    /\ pc >= 1 /\ pc <= Len(SeriesOf(series))
    /\ LET t == SeriesOf(series)[pc] IN
        /\ <<"main", t>> \in running
        /\ CompleteEffects("main", t)
    /\ pc' = pc + 1
    /\ UNCHANGED watchers
    /\ UNCHANGED notifierVars

\* a watched file changes: watcher w starts its series
FileChanged(w) ==
    /\ w \in DOMAIN watchers
    /\ watchers[w] = Idle
    /\ StartEffects(w, WatchSeries(w)[1])
    /\ watchers' = [watchers EXCEPT ![w] = [pc |-> 1, run |-> TRUE]]
    /\ UNCHANGED pc
    /\ UNCHANGED notifierVars

\* the running task of watcher w completes
WatchTaskComplete(w) ==
    /\ w \in DOMAIN watchers
    /\ watchers[w].run
    /\ CompleteEffects(w, WatchSeries(w)[watchers[w].pc])
    /\ watchers' = [watchers EXCEPT ![w] =
                       IF watchers[w].pc < Len(WatchSeries(w))
                       THEN [pc |-> watchers[w].pc + 1, run |-> FALSE]
                       ELSE Idle]
    /\ UNCHANGED pc
    /\ UNCHANGED notifierVars

\* watcher w starts the next task of its series
WatchTaskStart(w) ==
    /\ w \in DOMAIN watchers
    /\ watchers[w].pc >= 1 /\ ~watchers[w].run
    /\ StartEffects(w, WatchSeries(w)[watchers[w].pc])
    /\ watchers' = [watchers EXCEPT ![w].run = TRUE]
    /\ UNCHANGED pc
    /\ UNCHANGED notifierVars

NextGulp ==
    \/ \E name \in SeriesNames : Gulp(name)
    \/ TaskStart
    \/ TaskComplete
    \/ \E w \in WatchNames \cup {Watchify} : FileChanged(w)
    \/ \E w \in WatchNames \cup {Watchify} : WatchTaskComplete(w)
    \/ \E w \in WatchNames \cup {Watchify} : WatchTaskStart(w)

SpecGulp == InitScenario /\ [][NextGulp]_vars

(***************************************************************************)
(* Properties                                                              *)
(***************************************************************************)
MergedKeys == {"position", "dismissible", "autoDismiss"}

\* the documented default of key k at a level
DocumentedDefault(level, k) ==
    CASE k = "position" -> "'br'"
      [] k = "dismissible" -> "true"
      [] k = "autoDismiss" -> IF level = "'error'" THEN "4" ELSE "2"

RECURSIVE ContainsFrom(_, _, _)
ContainsFrom(text, part, i) ==
    IF i + Len(part) - 1 > Len(text) THEN FALSE
    ELSE IF SubSeq(text, i, i + Len(part) - 1) = part THEN TRUE
    ELSE ContainsFrom(text, part, i + 1)

\* part occurs in text
Contains(text, part) == ContainsFrom(text, part, 1)

\* the text by which a level value is named
LevelText(level) ==
    CASE level = "'warning'" -> "warning"
      [] level = "'INFO'" -> "INFO"
      [] level = "null" -> "null"
      [] level = Undefined -> "undefined"
      [] OTHER -> level

Visible == DOMAIN ns.notifications
Removed == autoFired \cup hidden

\* the record forwarded by the last call, a successful notify
Forwarded == last.calls[1].rec

\* C1: notify on a record with a known level forwards to the surface a record
\* whose position, dismissible and autoDismiss are the caller's value when the
\* record has the key (falsy values included), the level default otherwise,
\* and whose other keys are the caller's, unchanged.
C1_MergeOverDefaults ==
    (last.op = "notify" /\ Get(last.data, "level") \in {"'info'", "'success'", "'error'"}) =>
        /\ last.thrown = NoError
        /\ Len(last.calls) >= 1
        /\ last.calls[1].fn = "addNotification"
        /\ DOMAIN Forwarded = DOMAIN last.data \cup MergedKeys
        /\ \A k \in DOMAIN Forwarded :
              Forwarded[k] = IF k \in DOMAIN last.data THEN last.data[k]
                             ELSE DocumentedDefault(last.data.level, k)

C1_Witness ==
    /\ last.op = "notify"
    /\ last.thrown = NoError
    /\ Get(last.data, "level") = "'info'"
    /\ "autoDismiss" \in DOMAIN last.data /\ last.data.autoDismiss = "false"
    /\ "position" \notin DOMAIN last.data
    /\ "message" \in DOMAIN last.data
    /\ Forwarded.autoDismiss = "false"

\* C2: notify on a record whose level is not info, success or error (a missing
\* level included) fails with an error that names the level value; the error
\* reaches the caller and the surface is left as it was.
C2_UnknownLevelFails ==
    [][ (last'.op = "notify" /\ Get(heap[last'.obj], "level") \notin {"'info'", "'success'", "'error'"}) =>
            /\ last'.thrown /= NoError
            /\ Contains(last'.thrown, "\"" \o LevelText(Get(heap[last'.obj], "level")) \o "\"")
            /\ last'.calls = <<>>
            /\ ns' = ns ]_vars

C2_Witness ==
    /\ last.op = "notify"
    /\ last.thrown = "unknown level \"warning\""
    /\ Visible /= {}

\* C3: hideNotification with a uid that was never issued raises no error and
\* leaves the visible notifications and their pending timers unchanged.
C3_HideNeverIssued ==
    [][ (last'.op = "hideNotification" /\ last'.uid >= ns.uid) =>
            /\ last'.thrown = NoError
            /\ ns'.notifications = ns.notifications
            /\ ns'.timers = ns.timers ]_vars

C3_Witness ==
    /\ last.op = "hideNotification"
    /\ last.uid >= ns.uid
    /\ Visible /= {}
    /\ ns.timers /= {}

\* C4: once hideNotification(uid) was called on a visible notification with a
\* pending auto-dismiss timer, the notification is not visible, its timer is
\* not pending and no auto-dismiss has fired for it.
C4_HidePreemptsAutoDismiss ==
    \A u \in hideCalled :
        /\ u \notin Visible
        /\ u \notin ns.timers
        /\ u \notin autoFired

C4_Witness ==
    \E u \in hideCalled : \E v \in autoFired : u < v

\* C5: of a timer firing and a hideNotification for the same uid, the later
\* is a no-op without error; a notification is removed once, and a removal
\* affects no other notification.
C5_RaceIsBenign ==
    [][ /\ last'.thrown = NoError \/ last'.op = "notify"
        /\ (last'.op = "hideNotification" /\ last'.uid \in Removed) => ns' = ns
        /\ last'.op = "autoDismiss" => last'.uid \notin Removed
        /\ (Visible \ DOMAIN ns'.notifications) \subseteq ({last'.uid} \ Removed)
        /\ last'.op \in {"hideNotification", "autoDismiss"} =>
              \A v \in Visible \ {last'.uid} :
                  /\ v \in DOMAIN ns'.notifications
                  /\ ns'.notifications[v] = ns.notifications[v]
                  /\ (v \in ns'.timers) = (v \in ns.timers)
        /\ autoFired' \cap hidden' = {} ]_vars

C5_Witness ==
    /\ last.op = "hideNotification"
    /\ last.uid \in autoFired
    /\ ns.timers /= {}

\* C6 (as claimed): every displayed notification has a level among info,
\* success, error, and its position, dismissible and autoDismiss are never
\* undefined, whatever record notify accepted.
C6_NeverUndefined ==
    \A u \in Visible :
        /\ Get(ns.notifications[u], "level") \in {"'info'", "'success'", "'error'"}
        /\ \A k \in MergedKeys :
              /\ k \in DOMAIN ns.notifications[u]
              /\ ns.notifications[u][k] /= Undefined

\* C7: a notification becomes visible only by a successful notify, leaves only
\* by its timer or by hideNotification on its uid, is never visible again once
\* removed, and with a positive autoDismiss is eventually removed.
C7_Lifecycle ==
    /\ [][ /\ (DOMAIN ns'.notifications \ Visible) /= {} =>
                  (last'.op = "notify" /\ last'.thrown = NoError)
           /\ \A u \in Visible \ DOMAIN ns'.notifications :
                  last'.op \in {"autoDismiss", "hideNotification"} /\ last'.uid = u
           /\ \A u \in Removed \cup (Visible \ DOMAIN ns'.notifications) :
                  u \notin DOMAIN ns'.notifications ]_vars
    /\ \A u \in UidInputs :
          (u \in Visible /\ Get(ns.notifications[u], "autoDismiss") \in {"1", "2", "4"})
              ~> (u \notin Visible)

C7_Witness ==
    /\ autoFired /= {}
    /\ hidden /= {}
    /\ last.op = "notify" /\ last.thrown /= NoError

\* C8: the component keeps no state of its own; a successful notify makes one
\* addNotification call, a failed one none, and hideNotification makes one
\* removeNotification call with the uid it was given.
C8_DelegatesToSurface ==
    [][ /\ state' = state
        /\ last'.op = "notify" =>
              IF last'.thrown = NoError
              THEN /\ Len(last'.calls) = 1
                   /\ last'.calls[1].fn = "addNotification"
                   /\ Cardinality(DOMAIN ns'.notifications) = Cardinality(Visible) + 1
              ELSE last'.calls = <<>> /\ ns' = ns
        /\ last'.op = "hideNotification" =>
              /\ Len(last'.calls) = 1
              /\ last'.calls[1].fn = "removeNotification"
              /\ last'.calls[1].uid = last'.uid
              /\ DOMAIN ns'.notifications = Visible \ {last'.uid} ]_vars

C8_Witness ==
    /\ last.op = "hideNotification"
    /\ last.uid \in hidden
    /\ Visible /= {}
    /\ state = Undefined

\* the NODE_ENV a series is documented to build with
DocumentedEnv(name) == IF name \in {"prod", "default"} THEN "production" ELSE "development"

\* C9: while bundle or css runs, NODE_ENV is production in prod and default
\* and development in dev and live; no task that writes into the output
\* directory runs before clean has completed.
C9_EnvAndCleanOrder ==
    \A r \in running :
        /\ r[2] \in {"bundle", "bundle:watch", "rebundle", "css"} =>
              /\ NODE_ENV = DocumentedEnv(series)
              /\ envSeen[r[2]] = DocumentedEnv(series)
        /\ r[2] \in {"bundle", "bundle:watch", "rebundle", "html", "css", "resources"} => cleaned

C9_Witness ==
    /\ series = "default"
    /\ <<"main", "css">> \in running
    /\ "js" \in out

\* C10: notify leaves the caller's record as it was, whether it returns or
\* throws, and two calls in a row on the same record forward equal records.
C10_CallerRecordUntouched ==
    [][ last'.op = "notify" =>
            /\ heap' = heap
            /\ (last.op = "notify" /\ last.obj = last'.obj) => last'.calls = last.calls ]_vars

C10_Witness ==
    /\ last.op = "notify"
    /\ last.thrown = NoError
    /\ ns.uid >= 2
    /\ DOMAIN heap = {"data"}
    /\ Visible = {0, 1}
    /\ "autoDismiss" \notin DOMAIN heap["data"]
    /\ ns.notifications[0] = ns.notifications[1]

====
